---------------------------- MODULE Spec2Model ----------------------------
(***************************************************************************)
(* Model of the transporte server (src/server/index.ts): the spreadsheet   *)
(* upload that replaces the machines table, and the natural-language query *)
(* endpoint that turns a question into a SELECT, runs it and explains the  *)
(* result.                                                                 *)
(*                                                                         *)
(* Text is a sequence of one-character strings, so that trimming, case     *)
(* folding, prefix tests and fence stripping are computed, not assumed.    *)
(***************************************************************************)
EXTENDS Integers, Sequences, FiniteSets, TLC

(***************************************************************************)
(* Bounds of the model.                                                    *)
(***************************************************************************)
\* uploads that may be received in one behaviour (tags the rows of each batch)
MaxUploads == 2
\* rows of the largest table a query is run on
MaxRows == 5
\* data rows of the largest worksheet the extractor is applied to on its own
MaxDataRows == 2

(***************************************************************************)
(* Program constants.                                                      *)
(***************************************************************************)
\* index.ts:236  if (excelValue < 35000) return null
SerialThreshold == 35000
\* index.ts:240  (excelValue - 25569) * 86400 * 1000
ExcelEpochOffset == 25569
\* index.ts:179  data.length >= 5
ExplainMaxRows == 5
\* index.ts:282  worksheet.rowCount < 2
MinRowCount == 2

(***************************************************************************)
(* Text primitives (String.prototype.trim / toLowerCase / startsWith /     *)
(* includes / endsWith / replace with a global pattern).                   *)
(***************************************************************************)
UpperLetters == <<"A","B","C","D","E","F","G","H","I","J","K","L","M","N","O","P","Q","R","S","T","U","V","W","X","Y","Z">>

LowerLetters == <<"a","b","c","d","e","f","g","h","i","j","k","l","m","n","o","p","q","r","s","t","u","v","w","x","y","z">>

WhiteSpace == {" ", "\n", "\t", "\r"}

\* the one character U+0060 (grave accent), which a TLA+ string cannot hold
Backtick == "GRAVE"

LowerChar(c) ==
  IF \E i \in 1..Len(UpperLetters) : UpperLetters[i] = c
  THEN LowerLetters[CHOOSE i \in 1..Len(UpperLetters) : UpperLetters[i] = c]
  ELSE c

ToLowerCase(s) == [i \in 1..Len(s) |-> LowerChar(s[i])]

RECURSIVE TrimStart(_)
TrimStart(s) ==
  IF s # <<>> /\ Head(s) \in WhiteSpace THEN TrimStart(Tail(s)) ELSE s

RECURSIVE TrimEnd(_)
TrimEnd(s) ==
  IF s # <<>> /\ s[Len(s)] \in WhiteSpace
  THEN TrimEnd(SubSeq(s, 1, Len(s) - 1))
  ELSE s

Trim(s) == TrimEnd(TrimStart(s))

StartsWith(s, p) == Len(s) >= Len(p) /\ SubSeq(s, 1, Len(p)) = p

EndsWith(s, p) ==
  Len(s) >= Len(p) /\ SubSeq(s, Len(s) - Len(p) + 1, Len(s)) = p

Includes(s, p) ==
  \E i \in 1..(Len(s) - Len(p) + 1) : SubSeq(s, i, i + Len(p) - 1) = p

\* s.replace(/p/g, ''): every non-overlapping occurrence, left to right
RECURSIVE RemoveAll(_, _)
RemoveAll(s, p) ==
  IF s = <<>> THEN <<>>
  ELSE IF StartsWith(s, p) THEN RemoveAll(SubSeq(s, Len(p) + 1, Len(s)), p)
  ELSE <<Head(s)>> \o RemoveAll(Tail(s), p)

\* s.split(sep).length for a one-character separator
SplitCount(s, sep) == 1 + Cardinality({i \in 1..Len(s) : s[i] = sep})

DigitChars == <<"0","1","2","3","4","5","6","7","8","9">>

DigitChar(d) == DigitChars[d + 1]

IsDigit(c) == \E i \in 1..10 : DigitChars[i] = c

DigitVal(c) == (CHOOSE i \in 1..10 : DigitChars[i] = c) - 1

\* String(n) for an integer n
RECURSIVE NatToStr(_)
NatToStr(n) ==
  IF n < 10 THEN <<DigitChar(n)>>
  ELSE NatToStr(n \div 10) \o <<DigitChar(n % 10)>>

IntToStr(n) == IF n < 0 THEN <<"-">> \o NatToStr(0 - n) ELSE NatToStr(n)

\* String(n).padStart(w, '0')
RECURSIVE PadStart(_, _)
PadStart(s, w) == IF Len(s) >= w THEN s ELSE PadStart(<<"0">> \o s, w)

(***************************************************************************)
(* Spreadsheet cell values (ExcelJS cell.value).  t is the JavaScript type *)
(* of the value, s its text when it is a string, n its number when it is a *)
(* number, or the day count since 1970-01-01 UTC when it is a valid Date.  *)
(***************************************************************************)
Null == [t |-> "null", s |-> <<>>, n |-> 0]

Undefined == [t |-> "undefined", s |-> <<>>, n |-> 0]

Str(chars) == [t |-> "string", s |-> chars, n |-> 0]

Num(k) == [t |-> "number", s |-> <<>>, n |-> k]

DateVal(days) == [t |-> "date", s |-> <<>>, n |-> days]

InvalidDate == [t |-> "invalidDate", s |-> <<>>, n |-> 0]

Obj == [t |-> "object", s |-> <<>>, n |-> 0]

\* true and false
Bool(b) == [t |-> "boolean", s |-> <<>>, n |-> IF b THEN 1 ELSE 0]

\* !value
Falsy(c) ==
  \/ c.t \in {"null", "undefined"}
  \/ c.t = "string" /\ c.s = <<>>
  \/ c.t = "number" /\ c.n = 0
  \/ c.t = "boolean" /\ c.n = 0

\* value.toString() / String(value)
ToStr(c) ==
  CASE c.t = "string" -> c.s
    [] c.t = "number" -> IntToStr(c.n)
    [] c.t = "boolean" ->
         IF c.n = 1 THEN <<"t","r","u","e">> ELSE <<"f","a","l","s","e">>
    [] c.t = "null" -> <<"n","u","l","l">>
    [] c.t = "undefined" -> <<"u","n","d","e","f","i","n","e","d">>
    [] c.t = "invalidDate" -> <<"I","n","v","a","l","i","d"," ","D","a","t","e">>
    [] c.t = "date" -> <<"D","a","t","e">> \o IntToStr(c.n)
    [] OTHER -> <<"[","o","b","j","e","c","t"," ","O","b","j","e","c","t","]">>

(***************************************************************************)
(* Calendar arithmetic of the JavaScript Date (proleptic Gregorian, UTC).  *)
(***************************************************************************)
\* floor division, also for negative numerators
FloorDiv(a, b) == IF a >= 0 THEN a \div b ELSE 0 - ((0 - a + b - 1) \div b)

\* [y, m, d] of the day `days` days after 1970-01-01
CivilFromDays(days) ==
  LET z == days + 719468
      era == FloorDiv(z, 146097)
      doe == z - era * 146097
      yoe == (doe - doe \div 1460 + doe \div 36524 - doe \div 146096) \div 365
      doy == doe - (365 * yoe + yoe \div 4 - yoe \div 100)
      mp == (5 * doy + 2) \div 153
      d == doy - (153 * mp + 2) \div 5 + 1
      m == IF mp < 10 THEN mp + 3 ELSE mp - 9
      y == yoe + era * 400 + (IF m <= 2 THEN 1 ELSE 0)
  IN [y |-> y, m |-> m, d |-> d]

\* day count since 1970-01-01 of y-m-d (a day past the month's end rolls over)
DaysFromCivil(y, m, d) ==
  LET yy == IF m <= 2 THEN y - 1 ELSE y
      era == FloorDiv(yy, 400)
      yoe == yy - era * 400
      mp == IF m > 2 THEN m - 3 ELSE m + 9
      doy == (153 * mp + 2) \div 5 + d - 1
      doe == yoe * 365 + yoe \div 4 - yoe \div 100 + doy
  IN era * 146097 + doe - 719468

\* the largest time value of a Date, in days (8.64e15 ms): beyond it the
\* Date is invalid and getTime() is NaN
MaxDateDays == 100000000

\* the year of toISOString(): four digits for 0..9999, otherwise a sign and
\* six digits
IsoYear(y) ==
  IF y >= 0 /\ y <= 9999 THEN PadStart(IntToStr(y), 4)
  ELSE IF y > 9999 THEN <<"+">> \o PadStart(IntToStr(y), 6)
  ELSE <<"-">> \o PadStart(IntToStr(0 - y), 6)

\* date.toISOString().split('T')[0]
IsoDatePart(days) ==
  LET c == CivilFromDays(days)
  IN IsoYear(c.y) \o <<"-">> \o PadStart(IntToStr(c.m), 2)
       \o <<"-">> \o PadStart(IntToStr(c.d), 2)

\* year-month-day of the UTC fields, month and day padded to two digits
UtcFieldsDate(days) ==
  LET c == CivilFromDays(days)
  IN IntToStr(c.y) \o <<"-">> \o PadStart(IntToStr(c.m), 2)
       \o <<"-">> \o PadStart(IntToStr(c.d), 2)

\* the text is DDDD-DD-DD
IsIsoShape(s) ==
  /\ Len(s) = 10
  /\ s[5] = "-" /\ s[8] = "-"
  /\ \A i \in {1, 2, 3, 4, 6, 7, 9, 10} : IsDigit(s[i])

\* the text from its first digit on: the date parser of the JavaScript
\* engine ignores unrecognized words before the first number
RECURSIVE DropLeadingWords(_)
DropLeadingWords(s) ==
  IF s = <<>> \/ IsDigit(Head(s)) THEN s ELSE DropLeadingWords(Tail(s))

\* new Date(text) for a date-only ISO text, alone or after words: its day
\* count, or Invalid Date (month outside 1..12 or day outside 1..31, or any
\* other text)
ParseDate(text) ==
  LET s == DropLeadingWords(text)
  IN
  IF ~IsIsoShape(s) THEN [ok |-> FALSE, days |-> 0]
  ELSE LET y == DigitVal(s[1]) * 1000 + DigitVal(s[2]) * 100
                  + DigitVal(s[3]) * 10 + DigitVal(s[4])
           m == DigitVal(s[6]) * 10 + DigitVal(s[7])
           d == DigitVal(s[9]) * 10 + DigitVal(s[10])
       IN IF m \in 1..12 /\ d \in 1..31
          THEN [ok |-> TRUE, days |-> DaysFromCivil(y, m, d)]
          ELSE [ok |-> FALSE, days |-> 0]

(***************************************************************************)
(* Cell normalizers.                                                       *)
(***************************************************************************)
\* variant: the word is looked for in lower case only
IsToConfirm_CaseSensitive(trimmed) ==
  Includes(trimmed, <<"c","o","n","f","i","r","m","a","r">>)

\* index.ts:222  trimmed.toLowerCase().includes('confirmar')
IsToConfirm(trimmed) ==
  Includes(ToLowerCase(trimmed), <<"c","o","n","f","i","r","m","a","r">>)

\* variant: the serial is counted from one day later
SerialToDate_DayLate(v) ==
  IF v - 25570 > MaxDateDays THEN Null ELSE Str(IsoDatePart(v - 25570))

\* index.ts:240-243  new Date(Math.round((v - 25569) * 86400 * 1000)): for a
\* whole serial the millisecond count is a whole number of days, v - 25569 of
\* them; past the largest time value the Date is invalid and null is returned
SerialToDate(v) ==
  IF v - ExcelEpochOffset > MaxDateDays THEN Null
  ELSE Str(IsoDatePart(v - ExcelEpochOffset))

\* excelDateToJSDate, index.ts:206-251
excelDateToJSDate(excelValue) ==
  IF Falsy(excelValue) THEN Null
  ELSE IF excelValue.t = "date" THEN Str(IsoDatePart(excelValue.n))
  ELSE IF excelValue.t = "invalidDate" THEN Null
  ELSE IF excelValue.t = "string" THEN
    LET trimmed == Trim(excelValue.s)
    IN IF IsToConfirm(trimmed)
       THEN Null
       ELSE IF ParseDate(trimmed).ok
            THEN Str(UtcFieldsDate(ParseDate(trimmed).days))
            ELSE Null
  ELSE IF excelValue.t = "number" THEN
    IF excelValue.n < SerialThreshold THEN Null
    ELSE SerialToDate(excelValue.n)
  ELSE Null

\* variant: every trailing .0 is removed
RECURSIVE StripAllDotZero(_)
StripAllDotZero(s) ==
  IF EndsWith(s, <<".", "0">>) THEN StripAllDotZero(SubSeq(s, 1, Len(s) - 2))
  ELSE s

sanitizePn_Repeated(pnValue) ==
  IF pnValue.t \in {"null", "undefined"} THEN Null
  ELSE Str(StripAllDotZero(ToStr(pnValue)))

\* sanitizePn, index.ts:253-262
sanitizePn(pnValue) ==
  IF pnValue.t \in {"null", "undefined"} THEN Null
  ELSE LET pnString == ToStr(pnValue)
       IN IF EndsWith(pnString, <<".", "0">>)
          THEN Str(SubSeq(pnString, 1, Len(pnString) - 2))
          ELSE Str(pnString)

(***************************************************************************)
(* Worksheets: row 1 is the header, every row has the 11 cells A..K.       *)
(***************************************************************************)
Columns == 1..11

BlankRow == [c \in Columns |-> Null]

\* cells holding only white space
WhitespaceRow == [c \in Columns |-> IF c = 3 THEN Str(<<" ", " ">>) ELSE Null]

HeaderRow == [c \in Columns |-> Str(<<"h">>)]

\* machine CT2, ETA port "Por confirmar", a numeric part number cell "12.0"
RowCT2 ==
  <<Str(<<"A">>), Str(<<"R","1">>), Str(<<"C","T","2">>), Str(<<"1","2",".","0">>),
    Num(45000), Str(<<"P","o","r"," ","c","o","n","f","i","r","m","a","r">>),
    Str(<<"2","0","2","4","-","0","1","-","1","5">>), Str(<<"S">>), Null,
    Str(<<"O","K">>), Null>>

\* no machine name, a serial date below the threshold
RowNoMachine ==
  <<Null, Str(<<"R","2">>), Null, Num(7), Num(120), Null, Null, Null, Null,
    Null, Str(<<"B","L">>)>>

\* machine D65, a numeric part number, a Date cell, an invalid Date cell and
\* a text date with white space around it
RowD65 ==
  <<Str(<<"B">>), Null, Str(<<"D","6","5">>), Num(77), DateVal(19800),
    InvalidDate, Str(<<" ","2","0","2","4","-","0","3","-","0","1"," ">>),
    Null, Str(<<"U","R","E">>), Null, Null>>

\* an empty text as machine name, a text date
RowEmptyMachine ==
  <<Null, Str(<<"R","3">>), Str(<<>>), Bool(TRUE),
    Str(<<"2","0","2","4","-","0","1","-","1","5">>), Null, Null, Null, Null,
    Null, Null>>

\* nothing but the number 0 as part number
ZeroRow == [c \in Columns |-> IF c = 4 THEN Num(0) ELSE Null]

\* the uploaded files of the model, by name: one that readFile rejects, and
\* workbooks whose first worksheet is the one given here
Files ==
  {"unreadable", "noRows", "headerOnly", "whitespaceOnly", "blankThenRow",
   "threeRows"}

Readable(file) == file # "unreadable"

WorksheetOf(file) ==
  CASE file = "headerOnly" -> <<HeaderRow>>
    [] file = "whitespaceOnly" -> <<HeaderRow, WhitespaceRow>>
    [] file = "blankThenRow" -> <<HeaderRow, BlankRow, RowEmptyMachine>>
    [] file = "threeRows" -> <<HeaderRow, RowCT2, RowNoMachine, RowD65>>
    [] OTHER -> <<>>

\* worksheet.rowCount: the number of the last row
rowCount(ws) == Len(ws)

\* variant: a worksheet with only its header passes the check
TooShort_HeaderPasses(ws) == rowCount(ws) < 1

\* index.ts:282  worksheet.rowCount < 2
TooShort(ws) == rowCount(ws) < MinRowCount

\* variant: only a row of cells with no value is skipped
isRowEmpty_NoValueOnly(row) ==
  \A colNumber \in Columns : row[colNumber] \in {Null, Undefined}

\* index.ts:291-295
isRowEmpty(row) ==
  \A colNumber \in Columns :
    Falsy(row[colNumber]) \/ Trim(ToStr(row[colNumber])) = <<>>

UnknownMachine == Str(<<"U","n","k","n","o","w","n"," ","M","a","c","h","i","n","e">>)

\* variant: the machine cell is stored as it is
rowData_NoSentinel(row) ==
  LET raw == <<row[1], row[2], row[3], sanitizePn(row[4]),
               excelDateToJSDate(row[5]), excelDateToJSDate(row[6]),
               excelDateToJSDate(row[7]), row[8], row[9], row[10], row[11]>>
  IN [c \in Columns |-> IF raw[c] = Undefined THEN Null ELSE raw[c]]

\* index.ts:302-315
rowData(row) ==
  LET raw == <<row[1], row[2],
               IF Falsy(row[3]) THEN UnknownMachine ELSE row[3],
               sanitizePn(row[4]),
               excelDateToJSDate(row[5]),
               excelDateToJSDate(row[6]),
               excelDateToJSDate(row[7]),
               row[8], row[9], row[10], row[11]>>
  IN [c \in Columns |-> IF raw[c] = Undefined THEN Null ELSE raw[c]]

\* the loop of index.ts:286-316 from row i on
RECURSIVE ExtractFrom(_, _)
ExtractFrom(ws, i) ==
  IF i > rowCount(ws) THEN <<>>
  ELSE IF isRowEmpty(ws[i]) THEN ExtractFrom(ws, i + 1)
  ELSE <<rowData(ws[i])>> \o ExtractFrom(ws, i + 1)

rowsToInsert(ws) == ExtractFrom(ws, 2)

(***************************************************************************)
(* State.                                                                  *)
(***************************************************************************)
Uploads == {"u1", "u2"}

Queries == {"q1", "q2"}

VARIABLES
  db,        \* the machines table as the one connection sees it
  tx,        \* the connection's open transaction, if any
  dbQueue,   \* statements the connection holds back until it is idle
  up,        \* the upload requests, by slot
  qu,        \* the query requests, by slot
  received,  \* uploads received so far
  calc,      \* a normalizer applied on its own: its argument and its result
  chat,      \* the state of the chat widget and its requests
  pager      \* the state of the paginated data view

vars == <<db, tx, dbQueue, up, qu, received, calc, chat, pager>>

\* a table that does not exist
NoTable == [exists |-> FALSE, rows |-> <<>>, seq |-> 0]

\* CREATE_MACHINES_TABLE_SQL, index.ts:38-52: an empty table, AUTOINCREMENT
\* counter at 0
EmptyTable == [exists |-> TRUE, rows |-> <<>>, seq |-> 0]

NoTx == [active |-> FALSE, saved |-> NoTable]

\* a row left in machines.db by an earlier run of the server
OldRow ==
  [id |-> 1, gen |-> 0,
   t |-> [c \in Columns |-> IF c = 3 THEN Str(<<"o","l","d">>) ELSE Null]]

IdleUpload ==
  [pc |-> "idle", file |-> "none", batch |-> <<>>, gen |-> 0,
   chain |-> "none", nxt |-> 1, begin |-> FALSE, rollbacks |-> 0,
   promise |-> "none", resp |-> "none", respRows |-> 0, responses |-> 0,
   unlinks |-> 0, prior |-> NoTable, issued |-> {}, inserted |-> 0,
   insFailed |-> FALSE, commitFailed |-> FALSE, settles |-> 0,
   committed |-> 0, atUnlink |-> [responses |-> 0, promise |-> "none"],
   logged |-> FALSE, respLogged |-> FALSE]

\* no normalizer is being applied
NoCalc ==
  [fn |-> "none", done |-> FALSE, cell |-> Null, ws |-> <<>>, lang |-> "none",
   outCell |-> Null, outRows |-> <<>>, outText |-> "none"]

IdleQuery ==
  [pc |-> "idle", lang |-> "none", aiModel |-> "none", text |-> <<>>,
   sql |-> <<>>,
   rows |-> <<>>, resp |-> "none", data |-> <<>>, directAnswer |-> "none",
   view |-> "none", responses |-> 0, genCalls |-> 0, execCalls |-> 0,
   explainCalls |-> 0, explainFailed |-> FALSE, respSql |-> <<>>,
   hist |-> <<>>, logged |-> FALSE, respLogged |-> FALSE,
   question |-> FALSE, model |-> "none", genBackend |-> "none",
   explainBackend |-> "none"]

\* ChatArea as mounted, ChatArea.tsx:15-19, with isLoading of App.tsx:12:
\* the welcome message, an empty input, no request made
IdleChat ==
  [messages |-> <<"init">>, inputValue |-> "", aiModel |-> "gemini",
   isThinking |-> FALSE, isLoading |-> FALSE, requests |-> <<>>]

\* DataArea as mounted, part_000:20-23, with machines of App.tsx:11
MountedPager ==
  [machines |-> 0, viewMode |-> "TABLE", sortColumn |-> "machine",
   sortDirection |-> "asc", currentPage |-> 0]

\* initDB, index.ts:54-73: CREATE TABLE IF NOT EXISTS on the database file,
\* which is new or holds the rows of an earlier run
Init ==
  /\ db = [exists |-> TRUE, rows |-> <<OldRow>>, seq |-> 1]
  /\ tx = NoTx
  /\ dbQueue = <<>>
  /\ up = [u \in Uploads |-> IdleUpload]
  /\ qu = [q \in Queries |-> IdleQuery]
  /\ received = 0
  /\ calc = NoCalc
  /\ chat = IdleChat
  /\ pager = MountedPager

(***************************************************************************)
(* The sqlite3 connection.  Outside db.serialize a statement starts as     *)
(* soon as it is issued and statements in flight run in no given order; a  *)
(* statement issued inside db.serialize while others are in flight is held *)
(* back until none is.  The run calls of one prepared statement execute in *)
(* the order they were made.                                               *)
(***************************************************************************)
\* the upload has statements in flight
UploadInFlight(r) ==
  \/ r.chain \in {"drop", "create", "stmt", "commit"}
  \/ r.begin
  \/ r.rollbacks > 0

QueryInFlight(r) == r.pc = "executing"

\* variant: the statements of uploads in flight are not counted
Pending_QueriesOnly == \E q \in Queries : QueryInFlight(qu[q])

\* Database.pending > 0
Pending ==
  \/ \E u \in Uploads : UploadInFlight(up[u])
  \/ \E q \in Queries : QueryInFlight(qu[q])

\* DROP TABLE IF EXISTS machines: the table and its sqlite_sequence entry go
SqlDrop(d) == NoTable

\* CREATE TABLE machines (...): fails when the table exists; the new table
\* is empty and its AUTOINCREMENT counter is what sqlite_sequence holds
SqlCreateOk(d) == ~d.exists

SqlCreate(d) == [exists |-> TRUE, rows |-> <<>>, seq |-> d.seq]

\* INSERT INTO machines (...) VALUES (?, ...): id is one more than the
\* AUTOINCREMENT counter
SqlInsert(d, gen, tuple) ==
  [d EXCEPT !.rows = Append(@, [id |-> d.seq + 1, gen |-> gen, t |-> tuple]),
            !.seq = @ + 1]

\* machine TEXT NOT NULL, index.ts:43: an INSERT with a null machine fails
SqlInsertOk(tuple) == tuple[3] # Null

\* BEGIN TRANSACTION: fails inside a transaction
SqlBegin(d, t) == IF t.active THEN t ELSE [active |-> TRUE, saved |-> d]

\* COMMIT: fails with no transaction
SqlCommitOk(t) == t.active

\* ROLLBACK: restores what BEGIN saw; fails (no effect) with no transaction
SqlRollbackDb(d, t) == IF t.active THEN t.saved ELSE d

(***************************************************************************)
(* POST /api/admin/upload, index.ts:267-387.                               *)
(***************************************************************************)
\* console.error(...): an entry for an error is written to the log
LogError(r) == [r EXCEPT !.logged = TRUE]

\* res.status(400).json(...), index.ts:269; respLogged is whether the log
\* held an entry for an error when the response was sent
SendNoFile(r) ==
  [r EXCEPT !.resp = "400", !.responses = @ + 1, !.pc = "done",
            !.respLogged = r.logged]

\* catch: res.status(500).json(...), index.ts:374-377
SendError(r) ==
  [r EXCEPT !.resp = "500", !.responses = @ + 1, !.respLogged = r.logged]

\* res.json({success: true, rows: rowsToInsert.length}), index.ts:371
SendSuccess(r) ==
  [r EXCEPT !.resp = "ok", !.respRows = Len(r.batch), !.responses = @ + 1,
            !.respLogged = r.logged]

\* finally: fs.unlink(filePath, ...), index.ts:378-386; atUnlink is what the
\* handler had sent and awaited when it called unlink
Unlink(r) ==
  [r EXCEPT !.unlinks = @ + 1, !.pc = "done",
            !.atUnlink = [responses |-> r.responses, promise |-> r.promise]]

\* variant: the file is removed on the success path only
Throw_NoCleanup(r) == [SendError(LogError(r)) EXCEPT !.pc = "done"]

\* an exception thrown inside the try block, index.ts:277-284; catch logs
\* it and answers, index.ts:374-377
Throw(r) == Unlink(SendError(LogError(r)))

\* variant: every reject resumes the handler in catch, settled or not
Reject_EveryTime(r) ==
  Unlink(SendError(LogError([r EXCEPT !.promise = "rejected",
                                      !.settles = @ + 1])))

\* reject(err): settles the promise the handler awaits once; the handler
\* resumes in catch and finally before any other callback runs
Reject(r) ==
  IF r.promise = "pending"
  THEN Unlink(SendError(LogError([r EXCEPT !.promise = "rejected",
                                               !.settles = @ + 1])))
  ELSE [r EXCEPT !.settles = @ + 1]

\* resolve()
Resolve(r) ==
  IF r.promise = "pending"
  THEN Unlink(SendSuccess([r EXCEPT !.promise = "resolved", !.settles = @ + 1]))
  ELSE [r EXCEPT !.settles = @ + 1]

\* the slot holds no request whose work is still going on
SlotFree(r) ==
  r.pc \in {"idle", "done"} /\ ~UploadInFlight(r) /\ r.chain # "dropQueued"

\* no handler is running: every upload slot is idle or holds a request that
\* was answered (its statements may still be in flight)
NoHandlerRuns ==
  /\ \A u \in Uploads : up[u].pc \in {"idle", "done"}
  /\ \A q \in Queries : qu[q].pc = "idle"

\* the request arrives, with or without a file part that is one of files,
\* index.ts:267-279; it takes the first slot whose earlier request is over,
\* and the requests that are over are forgotten
UploadArrive(u, files) ==
  /\ SlotFree(up[u])
  /\ \A v \in Uploads : SlotFree(up[v]) => (u = "u1" \/ v # "u1")
  /\ received < MaxUploads
  /\ received' = received + 1
  /\ \E hasFile \in BOOLEAN, file \in files :
       LET r == [IdleUpload EXCEPT !.gen = received + 1, !.prior = db]
       IN up' = [v \in Uploads |->
                  IF v = u
                  THEN IF ~hasFile
                       THEN SendNoFile(r)
                       ELSE [r EXCEPT !.pc = "reading", !.file = file]
                  ELSE IF SlotFree(up[v]) THEN IdleUpload ELSE up[v]]
  /\ UNCHANGED <<db, tx, dbQueue, qu, calc, chat, pager>>

\* the request arrives while no other handler runs
UploadReceive(u) == NoHandlerRuns /\ UploadArrive(u, Files)

\* readFile has settled: the row-count check, the extraction loop and the
\* first statement of the replace, index.ts:279-322
UploadParse(u) ==
  LET r == up[u]
      ws == WorksheetOf(r.file)
  IN /\ r.pc = "reading"
     /\ IF ~Readable(r.file) \/ TooShort(ws)
        THEN /\ up' = [up EXCEPT ![u] = Throw(r)]
             /\ UNCHANGED dbQueue
        ELSE LET started == [r EXCEPT !.pc = "replacing",
                                      !.batch = rowsToInsert(ws),
                                      !.promise = "pending",
                                      !.issued = @ \cup {"DROP"}]
             IN IF Pending \/ dbQueue # <<>>
                THEN /\ up' = [up EXCEPT ![u] = [started EXCEPT !.chain = "dropQueued"]]
                     /\ dbQueue' = Append(dbQueue, u)
                ELSE /\ up' = [up EXCEPT ![u] = [started EXCEPT !.chain = "drop"]]
                     /\ UNCHANGED dbQueue
     /\ UNCHANGED <<db, tx, qu, received, calc, chat, pager>>

\* callback of DROP with no error: issues CREATE, index.ts:328-329
AfterDrop(r) == [r EXCEPT !.chain = "create", !.issued = @ \cup {"CREATE"}]

\* callback of DROP with an error, index.ts:323-326
AfterDropError(r) == Reject(LogError([r EXCEPT !.chain = "end"]))

\* DROP TABLE IF EXISTS machines runs, and its callback, index.ts:322-329
ExecDrop(u) ==
  LET r == up[u]
  IN /\ \/ r.chain = "drop" /\ UNCHANGED dbQueue
        \/ /\ r.chain = "dropQueued"
           /\ dbQueue # <<>> /\ Head(dbQueue) = u
           /\ ~Pending
           /\ dbQueue' = Tail(dbQueue)
     /\ \E ok \in BOOLEAN :
          IF ok
          THEN /\ db' = SqlDrop(db)
               /\ up' = [up EXCEPT ![u] = AfterDrop(r)]
          ELSE /\ db' = db
               /\ up' = [up EXCEPT ![u] = AfterDropError(r)]
     /\ UNCHANGED <<tx, qu, received, calc, chat, pager>>

\* variant: the loop over the rows starts at the second tuple
AfterCreate_SkipFirst(r) ==
  [r EXCEPT !.chain = "stmt", !.nxt = 2, !.begin = TRUE,
            !.issued = @ \cup {"BEGIN", "INSERT"}]

\* callback of CREATE with no error: BEGIN, prepare, one run per row and
\* finalize are issued, index.ts:336-349
AfterCreate(r) ==
  [r EXCEPT !.chain = "stmt", !.nxt = 1, !.begin = TRUE,
            !.issued = @ \cup {"BEGIN"}
                         \cup (IF r.batch # <<>> THEN {"INSERT"} ELSE {})]

\* callback of CREATE with an error, index.ts:330-333
AfterCreateError(r) == Reject(LogError([r EXCEPT !.chain = "end"]))

\* CREATE TABLE machines runs, and its callback, index.ts:329-349
ExecCreate(u) ==
  LET r == up[u]
  IN /\ r.chain = "create"
     /\ \E ok \in BOOLEAN :
          IF ok /\ SqlCreateOk(db)
          THEN /\ db' = SqlCreate(db)
               /\ up' = [up EXCEPT ![u] = AfterCreate(r)]
          ELSE /\ db' = db
               /\ up' = [up EXCEPT ![u] = AfterCreateError(r)]
     /\ UNCHANGED <<tx, dbQueue, qu, received, calc, chat, pager>>

\* BEGIN TRANSACTION runs; it has no callback, index.ts:336
ExecBegin(u) ==
  /\ up[u].begin
  /\ tx' = SqlBegin(db, tx)
  /\ up' = [up EXCEPT ![u].begin = FALSE]
  /\ UNCHANGED <<db, dbQueue, qu, received, calc, chat, pager>>

\* finalize callback with no error: issues COMMIT, index.ts:349-355
AfterFinalize(r) == [r EXCEPT !.chain = "commit", !.issued = @ \cup {"COMMIT"}]

\* the statement moves on to its next queued call: the next run, or finalize
StmtNext(r) ==
  LET s == [r EXCEPT !.nxt = @ + 1]
  IN IF s.nxt > Len(s.batch) THEN AfterFinalize(s) ELSE s

\* callback of a run with no error: nothing, index.ts:340-346
AfterInsert(r) == [r EXCEPT !.inserted = @ + 1]

\* variant: the failed run rolls back but does not reject the promise
AfterInsertError_NoReject(r) ==
  LogError([r EXCEPT !.insFailed = TRUE, !.rollbacks = @ + 1,
                     !.issued = @ \cup {"ROLLBACK"}])

\* callback of a run with an error: ROLLBACK is issued and the promise
\* rejected, index.ts:341-345
AfterInsertError(r) ==
  Reject(LogError([r EXCEPT !.insFailed = TRUE, !.rollbacks = @ + 1,
                            !.issued = @ \cup {"ROLLBACK"}]))

\* the next run of the prepared INSERT executes, and its callback,
\* index.ts:339-347
ExecInsert(u) ==
  LET r == up[u]
  IN /\ r.chain = "stmt"
     /\ r.nxt <= Len(r.batch)
     /\ \E ok \in BOOLEAN :
          IF ok /\ db.exists /\ SqlInsertOk(r.batch[r.nxt])
          THEN /\ db' = SqlInsert(db, r.gen, r.batch[r.nxt])
               /\ up' = [up EXCEPT ![u] = StmtNext(AfterInsert(r))]
          ELSE /\ db' = db
               /\ up' = [up EXCEPT ![u] = StmtNext(AfterInsertError(r))]
     /\ UNCHANGED <<tx, dbQueue, qu, received, calc, chat, pager>>

\* a batch with no rows: the statement is prepared and finalized,
\* index.ts:337, 349
ExecFinalizeEmpty(u) ==
  LET r == up[u]
  IN /\ r.chain = "stmt"
     /\ r.batch = <<>>
     /\ up' = [up EXCEPT ![u] = AfterFinalize(r)]
     /\ UNCHANGED <<db, tx, dbQueue, qu, received, calc, chat, pager>>

\* the rows of generation gen in the table
RowsOf(d, gen) == {i \in 1..Len(d.rows) : d.rows[i].gen = gen}

\* callback of COMMIT with no error, index.ts:360-363
AfterCommit(r, d) ==
  Resolve([r EXCEPT !.chain = "end",
                    !.committed = Cardinality(RowsOf(d, r.gen))])

\* callback of COMMIT with an error, index.ts:356-359
AfterCommitError(r) ==
  Reject(LogError([r EXCEPT !.chain = "end", !.commitFailed = TRUE,
                            !.rollbacks = @ + 1,
                            !.issued = @ \cup {"ROLLBACK"}]))

\* COMMIT runs, and its callback, index.ts:355-364
ExecCommit(u) ==
  LET r == up[u]
  IN /\ r.chain = "commit"
     /\ \E ok \in BOOLEAN :
          IF ok /\ SqlCommitOk(tx)
          THEN /\ tx' = NoTx
               /\ up' = [up EXCEPT ![u] = AfterCommit(r, db)]
          ELSE /\ tx' = tx
               /\ up' = [up EXCEPT ![u] = AfterCommitError(r)]
     /\ UNCHANGED <<db, dbQueue, qu, received, calc, chat, pager>>

\* a ROLLBACK runs; it has no callback, index.ts:343, 352, 358
ExecRollback(u) ==
  /\ up[u].rollbacks > 0
  /\ db' = SqlRollbackDb(db, tx)
  /\ tx' = NoTx
  /\ up' = [up EXCEPT ![u].rollbacks = @ - 1]
  /\ UNCHANGED <<dbQueue, qu, received, calc, chat, pager>>

UploadStep(u) ==
  \/ UploadReceive(u)
  \/ UploadParse(u)
  \/ ExecDrop(u)
  \/ ExecCreate(u)
  \/ ExecBegin(u)
  \/ ExecInsert(u)
  \/ ExecFinalizeEmpty(u)
  \/ ExecCommit(u)
  \/ ExecRollback(u)

(***************************************************************************)
(* POST /api/query, index.ts:390-453.                                      *)
(***************************************************************************)
\* a statement inside a Markdown code fence: white space, the opening fence
\* with its language tag, the statement on its own line, the closing fence,
\* white space
Fenced(pre, tag, stmt, post) ==
  pre \o <<Backtick, Backtick, Backtick>> \o tag \o <<"\n">> \o stmt
      \o <<"\n", Backtick, Backtick, Backtick>> \o post

\* language tags a fence may carry
FenceTags == { <<"s","q","l">>, <<"S","Q","L">> }

\* white space a backend text may begin or end with
Paddings == { <<>>, <<" ", "\n">> }

\* single SELECT statements
SelectStatements ==
  { <<"S","E","L","E","C","T"," ","*"," ","F","R","O","M"," ","m","a","c","h","i","n","e","s">> }

\* backend texts made of one SELECT statement in a language-tagged fence,
\* each with the statement it wraps
FencedSelects ==
  { [text |-> Fenced(pad, tag, stmt, pad), stmt |-> stmt, tag |-> tag] :
      pad \in Paddings, tag \in FenceTags, stmt \in SelectStatements }

\* texts the completion backend may return for the SQL prompt
BackendTexts ==
  { f.text : f \in FencedSelects } \cup
  { <<"S","E","L","E","C","T"," ","*"," ","F","R","O","M"," ","m","a","c","h","i","n","e","s">>,
    <<Backtick,Backtick,Backtick,"s","q","l","\n","S","E","L","E","C","T"," ","*"," ","F","R","O","M"," ","m","a","c","h","i","n","e","s","\n",Backtick,Backtick,Backtick>>,
    <<" "," ","s","e","l","e","c","t"," ","*"," ","f","r","o","m"," ","m","a","c","h","i","n","e","s"," ","l","i","m","i","t"," ","1"," ","\n">>,
    <<"D","R","O","P"," ","T","A","B","L","E"," ","m","a","c","h","i","n","e","s">>,
    <<"S","E","L","E","C","T"," ","1",";"," ","D","R","O","P"," ","T","A","B","L","E"," ","m","a","c","h","i","n","e","s">>,
    <<Backtick,Backtick,Backtick,"\n","d","e","l","e","t","e"," ","f","r","o","m"," ","m","a","c","h","i","n","e","s","\n",Backtick,Backtick,Backtick>>,
    <<"S","E","L","E","C","T"," ","*"," ","F","R","O","M"," ","n","o","t","h","i","n","g">> }

\* the lang field of the request body
Langs == {"es", "fr"}

\* the model field of the request body
ModelInputs == {"absent", "gemini", "zai", "bogus"}

\* generateSql, index.ts:172-175: the fence markers are removed, then trim
generateSql(generatedText) ==
  Trim(RemoveAll(RemoveAll(generatedText,
                           <<Backtick, Backtick, Backtick, "s", "q", "l">>),
                 <<Backtick, Backtick, Backtick>>))

\* variant: only the prefix is tested
SqlIsSafe_PrefixOnly(sql) ==
  StartsWith(ToLowerCase(Trim(sql)), <<"s","e","l","e","c","t">>)

\* variant: only the statement separator is tested
SqlIsSafe_SeparatorOnly(sql) == ~(SplitCount(ToLowerCase(Trim(sql)), ";") > 1)

\* the validation of index.ts:403-406 lets the statement through
SqlIsSafe(sql) ==
  LET trimmedSql == ToLowerCase(Trim(sql))
  IN ~(\/ ~StartsWith(trimmedSql, <<"s","e","l","e","c","t">>)
       \/ SplitCount(trimmedSql, ";") > 1)

\* variant: a result of exactly 5 rows is still explained
NeedsExplanation_FiveIncluded(data) ==
  ~(Len(data) = 0 \/ Len(data) > ExplainMaxRows)

\* generateExplanation calls the backend, index.ts:179-181
NeedsExplanation(data) == ~(Len(data) = 0 \/ Len(data) >= ExplainMaxRows)

\* variant: a single row is shown as a table
ViewOf_NoCard(rows) == IF Len(rows) >= 1 THEN "TABLE" ELSE "undefined"

\* index.ts:424, 437
ViewOf(rows) ==
  IF Len(rows) = 1 THEN "CARD" ELSE IF Len(rows) > 1 THEN "TABLE" ELSE "undefined"

translations ==
  [es |-> "Encontre los datos, pero no pude generar una explicacion.",
   en |-> "I found the data, but couldn't generate an explanation.",
   pt |-> "Encontrei os dados, mas nao consegui gerar uma explicacao.",
   sv |-> "Jag hittade datan, men kunde inte generera en forklaring."]

\* variant: an unsupported code is answered in Spanish
getTranslation_SpanishDefault(lang) ==
  LET supportedLangs == {"es", "en", "pt", "sv"}
      language == IF lang \in supportedLangs THEN lang ELSE "es"
  IN translations[language]

\* getTranslation(lang, 'explanationError'), translations.ts
getTranslation(lang) ==
  LET supportedLangs == {"es", "en", "pt", "sv"}
      language == IF lang \in supportedLangs THEN lang ELSE "en"
  IN translations[language]

\* the statement sqlite compiles from a text: the text up to the first ';'
RECURSIVE FirstStatement(_)
FirstStatement(s) ==
  IF s = <<>> \/ Head(s) = ";" THEN <<>>
  ELSE <<Head(s)>> \o FirstStatement(Tail(s))

\* the row of a SELECT that reads no table
LiteralRow == [id |-> 1, gen |-> 0 - 1, t |-> BlankRow]

\* db.all(sql): what sqlite does with the text on table d
RunSql(sql, d) ==
  LET stmt == ToLowerCase(Trim(FirstStatement(sql)))
      fail == [err |-> TRUE, rows |-> <<>>, db |-> d]
  IN CASE StartsWith(stmt, <<"s","e","l","e","c","t">>)
            /\ Includes(stmt, <<" ","f","r","o","m"," ","m","a","c","h","i","n","e","s">>) ->
            IF ~d.exists THEN fail
            ELSE [err |-> FALSE,
                  rows |-> IF Includes(stmt, <<" ","l","i","m","i","t"," ","1">>)
                           THEN SubSeq(d.rows, 1, IF d.rows = <<>> THEN 0 ELSE 1)
                           ELSE d.rows,
                  db |-> d]
       [] StartsWith(stmt, <<"s","e","l","e","c","t">>)
            /\ ~Includes(stmt, <<" ","f","r","o","m"," ","m","a","c","h","i","n","e","s">>)
            /\ Includes(stmt, <<" ","f","r","o","m"," ">>) -> fail
       [] StartsWith(stmt, <<"s","e","l","e","c","t">>)
            /\ ~Includes(stmt, <<" ","f","r","o","m"," ">>) ->
            [err |-> FALSE, rows |-> <<LiteralRow>>, db |-> d]
       [] StartsWith(stmt, <<"d","r","o","p"," ","t","a","b","l","e"," ","m","a","c","h","i","n","e","s">>) ->
            IF ~d.exists THEN fail
            ELSE [err |-> FALSE, rows |-> <<>>, db |-> NoTable]
       [] StartsWith(stmt, <<"d","e","l","e","t","e"," ","f","r","o","m"," ","m","a","c","h","i","n","e","s">>) ->
            IF ~d.exists THEN fail
            ELSE [err |-> FALSE, rows |-> <<>>, db |-> [d EXCEPT !.rows = <<>>]]
       [] OTHER -> fail

\* res.status(400).json(...), index.ts:393-396
SendBadRequest(r) ==
  [r EXCEPT !.resp = "400", !.responses = @ + 1, !.pc = "done",
            !.respLogged = r.logged]

\* res.status(500).json(...), index.ts:413-416 and 451
SendQueryError(r) ==
  [r EXCEPT !.resp = "500", !.responses = @ + 1, !.pc = "done",
            !.respLogged = r.logged]

\* res.json({data, sql, directAnswer, view}), index.ts:426-431 and 440-445
SendResult(r, rows, directAnswer) ==
  [r EXCEPT !.resp = "ok", !.responses = @ + 1, !.pc = "done",
            !.data = rows, !.respSql = r.sql, !.directAnswer = directAnswer,
            !.view = ViewOf(rows), !.respLogged = r.logged,
            !.hist = @ \o <<"Explained", "Responded">>]

\* variant: the selector is ignored and the Gemini client is called
BackendOf_AlwaysGemini(aiModel) == "gemini"

\* the client generateSql and generateExplanation call for aiModel,
\* index.ts:163-170 and 189-196
BackendOf(aiModel) == IF aiModel = "zai" THEN "zai" ELSE "gemini"

\* the request arrives, its lang one of langs and its model one of models,
\* index.ts:390-400; question is whether the body has a question
QueryArrive(q, langs, models) ==
  /\ qu[q].pc = "idle"
  /\ \E question \in BOOLEAN, lang \in langs, model \in models :
       LET aiModel == IF model = "absent" THEN "gemini" ELSE model
           r == [IdleQuery EXCEPT !.lang = lang, !.aiModel = aiModel,
                                  !.question = question, !.model = model]
       IN qu' = [qu EXCEPT ![q] =
                   IF ~question \/ aiModel \notin {"gemini", "zai"}
                   THEN SendBadRequest(r)
                   ELSE [r EXCEPT !.pc = "generating", !.genCalls = @ + 1,
                                  !.genBackend = BackendOf(aiModel),
                                  !.hist = <<"Received">>]]
  /\ UNCHANGED <<db, tx, dbQueue, up, received, calc, chat, pager>>

\* the request arrives while no other handler runs
QueryReceive(q) == NoHandlerRuns /\ QueryArrive(q, Langs, ModelInputs)

\* the validation passed: db.all(sql, ...) is issued, index.ts:409
IssueAll(r) ==
  [r EXCEPT !.pc = "executing", !.execCalls = @ + 1,
            !.hist = @ \o <<"SqlValidated">>]

\* the validation threw, index.ts:405 and 449-452
AfterUnsafeSql(r) ==
  SendQueryError(LogError([r EXCEPT !.hist = @ \o <<"FailedUnsafe">>]))

\* generateSql returned sql, index.ts:400-409
AfterGenerateSql(r, sql) ==
  LET g == [r EXCEPT !.sql = sql, !.hist = @ \o <<"SqlGenerated">>]
  IN IF SqlIsSafe(sql) THEN IssueAll(g) ELSE AfterUnsafeSql(g)

\* variant: a failed generation is tried once more
AfterGenerateSqlError_Retry(r) ==
  IF r.genCalls < 2
  THEN [r EXCEPT !.genCalls = @ + 1]
  ELSE SendQueryError(LogError([r EXCEPT !.hist = @ \o <<"FailedGeneration">>]))

\* generateSql threw, index.ts:449-452
AfterGenerateSqlError(r) ==
  SendQueryError(LogError([r EXCEPT !.hist = @ \o <<"FailedGeneration">>]))

\* what generateSql makes of each backend text
GeneratedSql == [text \in BackendTexts |-> generateSql(text)]

\* the backend answers the SQL prompt with one of texts, index.ts:158-176
\* and 400-409
GenerateSqlReturnOf(q, texts) ==
  /\ qu[q].pc = "generating"
  /\ \E text \in texts :
       qu' = [qu EXCEPT ![q] = AfterGenerateSql([qu[q] EXCEPT !.text = text],
                                                GeneratedSql[text])]
  /\ UNCHANGED <<db, tx, dbQueue, up, received, calc, chat, pager>>

GenerateSqlReturn(q) == GenerateSqlReturnOf(q, BackendTexts)

\* the backend call for the SQL prompt fails
GenerateSqlFail(q) ==
  /\ qu[q].pc = "generating"
  /\ qu' = [qu EXCEPT ![q] = AfterGenerateSqlError(qu[q])]
  /\ UNCHANGED <<db, tx, dbQueue, up, received, calc, chat, pager>>

\* variant: rows is kept in a variable the requests share, so a request is
\* given the rows of another request that is waiting for its explanation
AfterAll_SharedRows(r, rows) ==
  LET waiting == {q \in Queries : qu[q].pc = "explaining"}
      shared == IF waiting = {} THEN rows
                ELSE qu[CHOOSE q \in waiting : TRUE].rows
      e == [r EXCEPT !.rows = shared, !.hist = @ \o <<"Executed">>]
  IN IF NeedsExplanation(shared)
     THEN [e EXCEPT !.pc = "explaining", !.explainCalls = @ + 1,
                    !.explainBackend = BackendOf(r.aiModel)]
     ELSE SendResult(e, shared, "null")

\* db.all callback with rows, index.ts:419-431: generateExplanation is called;
\* it returns null at once or calls the backend
AfterAll(r, rows) ==
  LET e == [r EXCEPT !.rows = rows, !.hist = @ \o <<"Executed">>]
  IN IF NeedsExplanation(rows)
     THEN [e EXCEPT !.pc = "explaining", !.explainCalls = @ + 1,
                    !.explainBackend = BackendOf(r.aiModel)]
     ELSE SendResult(e, rows, "null")

\* variant: the error is logged and no response is sent
AfterAllError_Silent(r) ==
  LogError([r EXCEPT !.pc = "done", !.hist = @ \o <<"FailedDatabase">>])

\* db.all callback with an error, index.ts:410-417
AfterAllError(r) ==
  SendQueryError(LogError([r EXCEPT !.hist = @ \o <<"FailedDatabase">>]))

\* the statement runs, and the db.all callback, index.ts:409-431
ExecAll(q) ==
  LET r == qu[q]
      res == RunSql(r.sql, db)
  IN /\ r.pc = "executing"
     /\ \E ok \in BOOLEAN :
          IF ok /\ ~res.err
          THEN /\ db' = res.db
               /\ qu' = [qu EXCEPT ![q] = AfterAll(r, res.rows)]
          ELSE /\ db' = db
               /\ qu' = [qu EXCEPT ![q] = AfterAllError(r)]
     /\ UNCHANGED <<tx, dbQueue, up, received, calc, chat, pager>>

\* generateExplanation returned text, index.ts:421-431
AfterExplanation(r) == SendResult(r, r.rows, "generated")

\* variant: the explanation failure fails the request
AfterExplanationError_Fails(r) ==
  SendQueryError(LogError([r EXCEPT !.explainFailed = TRUE]))

\* generateExplanation threw, index.ts:433-446
AfterExplanationError(r) ==
  SendResult(LogError([r EXCEPT !.explainFailed = TRUE]), r.rows,
             getTranslation(r.lang))

\* the backend answers the explanation prompt
ExplainReturn(q) ==
  /\ qu[q].pc = "explaining"
  /\ qu' = [qu EXCEPT ![q] = AfterExplanation(qu[q])]
  /\ UNCHANGED <<db, tx, dbQueue, up, received, calc, chat, pager>>

\* the backend call for the explanation prompt fails
ExplainFail(q) ==
  /\ qu[q].pc = "explaining"
  /\ qu' = [qu EXCEPT ![q] = AfterExplanationError(qu[q])]
  /\ UNCHANGED <<db, tx, dbQueue, up, received, calc, chat, pager>>

\* the request is over
QueryForget(q) ==
  /\ qu[q].pc = "done"
  /\ qu' = [qu EXCEPT ![q] = IdleQuery]
  /\ UNCHANGED <<db, tx, dbQueue, up, received, calc, chat, pager>>

QueryStep(q) ==
  \/ QueryReceive(q)
  \/ GenerateSqlReturn(q)
  \/ GenerateSqlFail(q)
  \/ ExecAll(q)
  \/ ExplainReturn(q)
  \/ ExplainFail(q)
  \/ QueryForget(q)

NextUpload == \E u \in Uploads : UploadStep(u)

NextQuery == \E q \in Queries : QueryStep(q)

Next == NextUpload \/ NextQuery

\* uploads and queries, one request handled at a time
Spec == Init /\ [][Next]_vars

\* uploads only
SpecUpload == Init /\ [][NextUpload]_vars

\* the table holding the tuples of batch, inserted in order by upload gen
TableHolding(batch, gen) ==
  [exists |-> TRUE,
   rows |-> [i \in 1..Len(batch) |-> [id |-> i, gen |-> gen, t |-> batch[i]]],
   seq |-> Len(batch)]

\* a batch of n tuples: those of the three-row workbook, over again
BatchOfLen(n) ==
  LET base == rowsToInsert(WorksheetOf("threeRows"))
  IN [i \in 1..n |-> base[((i - 1) % Len(base)) + 1]]

\* tables an upload can leave behind: none (CREATE failed), and tables of 0
\* to MaxRows rows
QueryTables ==
  { NoTable, EmptyTable,
    TableHolding(rowsToInsert(WorksheetOf("blankThenRow")), 1),
    TableHolding(rowsToInsert(WorksheetOf("threeRows")), 1) }
    \cup { TableHolding(BatchOfLen(n), 1) : n \in 0..MaxRows }

InitQuery ==
  /\ db \in QueryTables
  /\ tx = NoTx
  /\ dbQueue = <<>>
  /\ up = [u \in Uploads |-> IdleUpload]
  /\ qu = [q \in Queries |-> IdleQuery]
  /\ received = 0
  /\ calc = NoCalc
  /\ chat = IdleChat
  /\ pager = MountedPager

\* queries only, on each of the tables
SpecQuery == InitQuery /\ [][NextQuery]_vars

\* the workbooks and the backend texts of the overlapping requests
OverlapFiles == {"blankThenRow"}

OverlapTexts ==
  { <<"S","E","L","E","C","T"," ","*"," ","F","R","O","M"," ","m","a","c","h","i","n","e","s">> }

\* uploads and queries whose handlers overlap: a request arrives whatever
\* the other requests are doing
NextOverlap ==
  \/ \E u \in Uploads :
        \/ UploadArrive(u, OverlapFiles)
        \/ UploadParse(u)
        \/ ExecDrop(u)
        \/ ExecCreate(u)
        \/ ExecBegin(u)
        \/ ExecInsert(u)
        \/ ExecCommit(u)
        \/ ExecRollback(u)
  \/ \E q \in {"q1"} :
        \/ QueryArrive(q, {"es"}, {"gemini"})
        \/ GenerateSqlReturnOf(q, OverlapTexts)
        \/ GenerateSqlFail(q)
        \/ ExecAll(q)
        \/ ExplainReturn(q)
        \/ ExplainFail(q)
        \/ QueryForget(q)

SpecOverlap == Init /\ [][NextOverlap]_vars

\* queries whose handlers overlap, on each of the tables
NextQueries ==
  \E q \in Queries :
    \/ QueryArrive(q, {"es"}, {"gemini", "zai"})
    \/ GenerateSqlReturn(q)
    \/ GenerateSqlFail(q)
    \/ ExecAll(q)
    \/ ExplainReturn(q)
    \/ ExplainFail(q)
    \/ QueryForget(q)

SpecQueries == InitQuery /\ [][NextQueries]_vars

\* queries only; every call to the backend and to the database returns or
\* fails
SpecQueryFair ==
  /\ SpecQuery
  /\ \A q \in Queries :
       /\ WF_vars(GenerateSqlReturn(q) \/ GenerateSqlFail(q))
       /\ WF_vars(ExecAll(q))
       /\ WF_vars(ExplainReturn(q) \/ ExplainFail(q))

(***************************************************************************)
(* The helper functions applied on their own: excelDateToJSDate and        *)
(* sanitizePn to a cell value, the extraction loop to a worksheet,         *)
(* getTranslation to a language code.                                      *)
(***************************************************************************)
\* numbers a cell may hold: around the threshold, around the last four-digit
\* year, around the largest time value of a Date
Serials ==
  {0, 7, 120, 34999, 35000, 35001, 45000, 2958465, 2958466, 100025569,
   100025570}

\* texts holding the word confirmar: in lower, upper and mixed case, alone,
\* after a word, before a date, with white space around
ConfirmarTexts ==
  { pre \o word \o post :
      pre \in { <<>>, <<" ">>, <<"P","o","r"," ">> },
      word \in { <<"c","o","n","f","i","r","m","a","r">>,
                 <<"C","O","N","F","I","R","M","A","R">>,
                 <<"C","o","n","f","i","r","m","a","r">> },
      post \in { <<>>, <<" ">>, <<" ","2","0","2","4","-","0","1","-","1","5">> } }

\* other texts a cell may hold
CellTexts ==
  { <<>>, <<" ", " ">>, <<"a","b","c">>, <<"C","T","2">>,
    <<"2","0","2","4","-","0","1","-","1","5">>,
    <<" ","2","0","2","4","-","0","3","-","0","1"," ">>,
    <<"2","0","2","4","-","0","2","-","3","0">>,
    <<"2","0","2","4","-","1","3","-","0","1">>,
    <<"0","5","0","0","-","0","1","-","0","1">>,
    <<"1","2">>, <<"1","2",".","0">>, <<"1","2",".","0",".","0">>,
    <<".","0">>, <<"1","2",".","5">>, <<"1",".","0","0">>, <<"1","2",".","0"," ">> }

\* values of row.getCell(n).value
RawCells ==
  { Null, Undefined, Obj, InvalidDate, Bool(TRUE), Bool(FALSE), DateVal(0),
    DateVal(19800) }
    \cup { Num(k) : k \in Serials }
    \cup { Str(t) : t \in CellTexts \cup ConfirmarTexts }

\* data rows a worksheet may hold
DataRows ==
  { BlankRow, WhitespaceRow, RowCT2, RowNoMachine, RowD65, RowEmptyMachine,
    ZeroRow }

\* worksheets of a header and up to MaxDataRows data rows
RECURSIVE WorksheetsOfLen(_)
WorksheetsOfLen(n) ==
  IF n = 0 THEN { <<HeaderRow>> }
  ELSE { Append(ws, row) : ws \in WorksheetsOfLen(n - 1), row \in DataRows }

Worksheets == UNION { WorksheetsOfLen(n) : n \in 0..MaxDataRows }

\* values of the lang field handed to getTranslation
LangCodes == {"es", "en", "pt", "sv", "fr", "es-MX", "ES", "", "undefined"}

\* the applications to be made
CalcInputs ==
  { [NoCalc EXCEPT !.fn = "excelDateToJSDate", !.cell = c] : c \in RawCells }
    \cup { [NoCalc EXCEPT !.fn = "sanitizePn", !.cell = c] : c \in RawCells }
    \cup { [NoCalc EXCEPT !.fn = "rowsToInsert", !.ws = ws] : ws \in Worksheets }
    \cup { [NoCalc EXCEPT !.fn = "getTranslation", !.lang = l] : l \in LangCodes }

InitFunctions ==
  /\ db = EmptyTable
  /\ tx = NoTx
  /\ dbQueue = <<>>
  /\ up = [u \in Uploads |-> IdleUpload]
  /\ qu = [q \in Queries |-> IdleQuery]
  /\ received = 0
  /\ calc \in CalcInputs
  /\ chat = IdleChat
  /\ pager = MountedPager

\* excelDateToJSDate(cell), index.ts:206-251
DateStep ==
  /\ calc.fn = "excelDateToJSDate" /\ ~calc.done
  /\ calc' = [calc EXCEPT !.done = TRUE, !.outCell = excelDateToJSDate(calc.cell)]
  /\ UNCHANGED <<db, tx, dbQueue, up, qu, received, chat, pager>>

\* sanitizePn(cell), index.ts:253-262
PnStep ==
  /\ calc.fn = "sanitizePn" /\ ~calc.done
  /\ calc' = [calc EXCEPT !.done = TRUE, !.outCell = sanitizePn(calc.cell)]
  /\ UNCHANGED <<db, tx, dbQueue, up, qu, received, chat, pager>>

\* the extraction loop on a worksheet, index.ts:286-316
ExtractStep ==
  /\ calc.fn = "rowsToInsert" /\ ~calc.done
  /\ calc' = [calc EXCEPT !.done = TRUE, !.outRows = rowsToInsert(calc.ws)]
  /\ UNCHANGED <<db, tx, dbQueue, up, qu, received, chat, pager>>

\* getTranslation(lang, 'explanationError'), translations.ts
TranslationStep ==
  /\ calc.fn = "getTranslation" /\ ~calc.done
  /\ calc' = [calc EXCEPT !.done = TRUE, !.outText = getTranslation(calc.lang)]
  /\ UNCHANGED <<db, tx, dbQueue, up, qu, received, chat, pager>>

NextFunctions == DateStep \/ PnStep \/ ExtractStep \/ TranslationStep

\* each helper function applied once to each of its inputs
SpecFunctions == InitFunctions /\ [][NextFunctions]_vars

(***************************************************************************)
(* Properties.                                                             *)
(***************************************************************************)
InHist(r, name) == \E i \in 1..Len(r.hist) : r.hist[i] = name

\* a candidate the gate must reject: once trimmed and lower-cased it does
\* not begin with select, or it contains ;
Unsafe(sql) ==
  LET c == ToLowerCase(Trim(sql))
  IN \/ Len(c) < 6
     \/ SubSeq(c, 1, 6) # <<"s","e","l","e","c","t">>
     \/ \E i \in 1..Len(c) : c[i] = ";"

\* C1: when the candidate SQL, trimmed and lower-cased, does not begin with
\* select or contains ';', db.all is never called for the request and the
\* request ends with an error response.
C1_UnsafeSqlNeverExecuted ==
  \A q \in Queries :
    (InHist(qu[q], "SqlGenerated") /\ Unsafe(qu[q].sql))
      => /\ qu[q].execCalls = 0
         /\ qu[q].pc = "done"
         /\ qu[q].resp = "500"

C1_Witness ==
  \E q \in Queries :
    /\ InHist(qu[q], "SqlGenerated")
    /\ Unsafe(qu[q].sql)
    /\ \E i \in 1..Len(qu[q].sql) : qu[q].sql[i] = ";"
    /\ qu[q].resp = "500"

\* the upload failed on an insert or on COMMIT, and every statement it issued
\* has run
FailedAndDrained(r) ==
  /\ r.insFailed \/ r.commitFailed
  /\ r.pc = "done"
  /\ ~UploadInFlight(r)

\* C2: after an insert or commit failure, once every statement of the upload
\* has run, the table is in its prior state or recreated and empty; never a
\* non-empty part of the new batch, never new rows mixed with stale rows.
C2_FailedUploadLeavesPriorOrEmpty ==
  \A u \in Uploads :
    (FailedAndDrained(up[u]) /\ up[u].gen = received)
      => \/ db = up[u].prior
         \/ db.exists /\ db.rows = <<>>

\* C3: after an upload responds success (and before a later upload), the
\* table holds exactly the tuples the extractor produced, in order, with ids
\* 1..n, and no row of an earlier upload.
C3_RoundTrip ==
  \A u \in Uploads :
    (up[u].resp = "ok" /\ up[u].gen = received)
      => db = TableHolding(rowsToInsert(WorksheetOf(up[u].file)), up[u].gen)

C3_Witness ==
  \E u \in Uploads :
    /\ up[u].resp = "ok"
    /\ up[u].gen = 2
    /\ received = 2
    /\ Len(db.rows) = 3

\* C4: a success response {success: true, rows: n} means exactly n rows of
\* the batch were inserted and committed; it is never sent when a row insert
\* or the COMMIT failed.
C4_SuccessCountsInsertedRows ==
  \A u \in Uploads :
    up[u].resp = "ok"
      => /\ up[u].respRows = up[u].inserted
         /\ up[u].respRows = up[u].committed
         /\ up[u].respRows = Len(rowsToInsert(WorksheetOf(up[u].file)))
         /\ ~up[u].insFailed
         /\ ~up[u].commitFailed

C4_Witness ==
  \E u \in Uploads :
    /\ up[u].resp = "ok"
    /\ up[u].respRows = 3
    /\ up[u].committed = 3

\* C5: no step of a query request changes the machines table (rows, schema,
\* open transaction), whatever text the backend returns.
C5_QueriesLeaveTable ==
  [][(\E q \in Queries : qu'[q] # qu[q]) => (db' = db /\ tx' = tx)]_vars

\* the backend answered DROP TABLE machines, the request failed and the table
\* is there with its rows
C5_Witness ==
  \E q \in Queries :
    /\ qu[q].sql = <<"D","R","O","P"," ","T","A","B","L","E"," ","m","a","c","h","i","n","e","s">>
    /\ qu[q].resp = "500"
    /\ db.exists
    /\ Len(db.rows) = 3

\* C6: for every upload that received a file, the temporary file's removal
\* is initiated exactly once on every exit path, and only after the replace
\* promise has settled (if it was created) and the response has been sent.
C6_UnlinkOnceAfterResponse ==
  \A u \in Uploads :
    up[u].file # "none"
      => /\ up[u].unlinks <= 1
         /\ (up[u].pc = "done" => up[u].unlinks = 1)
         /\ (up[u].pc \in {"reading", "replacing"} => up[u].unlinks = 0)
         /\ (up[u].unlinks = 1
               => /\ up[u].responses = 1
                  /\ up[u].atUnlink.responses = 1
                  /\ up[u].atUnlink.promise \in {"none", "resolved", "rejected"}
                  /\ (up[u].atUnlink.promise = "none" => up[u].issued = {}))

C6_Witness ==
  \E u \in Uploads :
    /\ up[u].insFailed
    /\ up[u].commitFailed
    /\ up[u].settles > 1
    /\ up[u].unlinks = 1

\* files whose worksheet has fewer than 2 rows
ShortFiles == {f \in Files : Readable(f) /\ Len(WorksheetOf(f)) < 2}

\* C7: an upload whose worksheet has fewer than 2 rows ends with an error
\* response, issues no DROP, CREATE, BEGIN or INSERT, and none of its steps
\* changes the table.
C7_ShortWorksheetRejected ==
  [][\A u \in Uploads :
       up'[u].file \in ShortFiles
         => /\ up'[u].issued = {}
            /\ up'[u].chain = "none"
            /\ (up'[u].pc = "done" => up'[u].resp = "500")
            /\ (up'[u] # up[u] => (db' = db /\ tx' = tx))]_vars

C7_Witness ==
  \E u \in Uploads :
    /\ up[u].file = "headerOnly"
    /\ up[u].pc = "done"
    /\ up[u].resp = "500"
    /\ db = up[u].prior

\* the fallback sentence of a language code
Fallback(lang) ==
  CASE lang = "es" -> "Encontre los datos, pero no pude generar una explicacion."
    [] lang = "pt" -> "Encontrei os dados, mas nao consegui gerar uma explicacao."
    [] lang = "sv" -> "Jag hittade datan, men kunde inte generera en forklaring."
    [] OTHER -> "I found the data, but couldn't generate an explanation."

\* C8: when the backend fails on the explanation, the request still ends
\* with a success response carrying the rows, the SQL and the view mode, and
\* directAnswer is the localized fallback sentence.
C8_ExplanationFailureDegrades ==
  \A q \in Queries :
    qu[q].explainFailed
      => /\ qu[q].pc = "done"
         /\ qu[q].resp = "ok"
         /\ qu[q].data = qu[q].rows
         /\ qu[q].respSql = qu[q].sql
         /\ qu[q].view = (IF Len(qu[q].rows) = 1 THEN "CARD" ELSE "TABLE")
         /\ qu[q].directAnswer = Fallback(qu[q].lang)

C8_Witness ==
  \E q \in Queries :
    /\ qu[q].explainFailed
    /\ qu[q].resp = "ok"
    /\ qu[q].lang = "fr"
    /\ qu[q].view = "TABLE"

\* the paths of the query state machine
QueryPaths ==
  { <<"Received", "SqlGenerated", "SqlValidated", "Executed", "Explained", "Responded">>,
    <<"Received", "FailedGeneration">>,
    <<"Received", "SqlGenerated", "FailedUnsafe">>,
    <<"Received", "SqlGenerated", "SqlValidated", "FailedDatabase">> }

IsPrefix(a, b) == Len(a) <= Len(b) /\ SubSeq(b, 1, Len(a)) = a

\* C9: an accepted query request moves through Received, SqlGenerated,
\* SqlValidated, Executed, Explained, Responded in that order, failing only
\* at generation, validation or execution; generation, execution and
\* explanation are each called at most once, execution only after
\* validation, explanation only after execution.
C9_QueryStateMachine ==
  \A q \in Queries :
    /\ \E p \in QueryPaths : IsPrefix(qu[q].hist, p)
    /\ qu[q].genCalls <= 1
    /\ qu[q].execCalls <= 1
    /\ qu[q].explainCalls <= 1
    /\ (qu[q].genCalls = 1 <=> InHist(qu[q], "Received"))
    /\ (qu[q].execCalls = 1 <=> InHist(qu[q], "SqlValidated"))
    /\ (qu[q].explainCalls = 1 => InHist(qu[q], "Executed"))
    /\ (qu[q].pc = "generating" <=> qu[q].hist = <<"Received">>)
    /\ (qu[q].pc = "executing" <=> (qu[q].hist # <<>> /\ qu[q].hist[Len(qu[q].hist)] = "SqlValidated"))
    /\ (qu[q].pc = "explaining" <=> (qu[q].hist # <<>> /\ qu[q].hist[Len(qu[q].hist)] = "Executed"))

C9_Witness ==
  \E q \in Queries :
    /\ qu[q].hist = <<"Received", "SqlGenerated", "SqlValidated", "Executed", "Explained", "Responded">>
    /\ qu[q].explainCalls = 1

QueryFailed(r) ==
  \E i \in 1..Len(r.hist) :
    r.hist[i] \in {"FailedGeneration", "FailedUnsafe", "FailedDatabase"}

OneResponseSoFar ==
  \A q \in Queries :
    /\ qu[q].responses <= 1
    /\ (qu[q].pc = "done" => qu[q].responses = 1)
    /\ (qu[q].pc \in {"generating", "executing", "explaining"}
          => qu[q].responses = 0)
    /\ (QueryFailed(qu[q]) => qu[q].pc = "done" /\ qu[q].resp = "500")

\* C10: a query request that reaches a Failed state gets a non-success
\* response; every query request gets exactly one response: never two, and,
\* when each outstanding call returns or fails, never none.
C10_ExactlyOneResponse ==
  /\ []OneResponseSoFar
  /\ \A q \in Queries :
       (qu[q].pc \in {"generating", "executing", "explaining"})
         ~> (qu[q].pc = "done" /\ qu[q].responses = 1)

C10_Witness ==
  \E q \in Queries :
    /\ InHist(qu[q], "FailedDatabase")
    /\ qu[q].resp = "500"
    /\ qu[q].responses = 1

\* C11: generateExplanation returns null without calling the completion
\* backend exactly when the result has 0 rows or 5 or more; for 1 to 4 rows
\* it calls the backend exactly once.
C11_ExplanationOnlyForSmallResults ==
  \A q \in Queries :
    InHist(qu[q], "Executed")
      => /\ (Len(qu[q].rows) = 0 \/ Len(qu[q].rows) >= 5)
              => /\ qu[q].explainCalls = 0
                 /\ qu[q].resp = "ok"
                 /\ qu[q].directAnswer = "null"
         /\ (Len(qu[q].rows) \in 1..4)
              => /\ qu[q].explainCalls = 1
                 /\ (qu[q].resp = "ok" => qu[q].directAnswer # "null")

\* a result of exactly 5 rows was answered without a call to the backend
C11_Witness ==
  \E q \in Queries :
    /\ InHist(qu[q], "Executed")
    /\ Len(qu[q].rows) = 5
    /\ qu[q].explainCalls = 0
    /\ qu[q].directAnswer = "null"

\* C12: in every success response of the query endpoint, with the generated
\* explanation or with the fallback, view is CARD exactly for one row, TABLE
\* exactly for more than one, absent exactly for none, and then directAnswer
\* is null.
C12_ViewFollowsRowCount ==
  \A q \in Queries :
    qu[q].resp = "ok"
      => /\ qu[q].data = qu[q].rows
         /\ (qu[q].view = "CARD" <=> Len(qu[q].data) = 1)
         /\ (qu[q].view = "TABLE" <=> Len(qu[q].data) > 1)
         /\ (qu[q].view = "undefined" <=> Len(qu[q].data) = 0)
         /\ (Len(qu[q].data) = 0 => qu[q].directAnswer = "null")

\* a one-row result answered on the fallback path
C12_Witness ==
  \E q \in Queries :
    /\ qu[q].resp = "ok"
    /\ qu[q].explainFailed
    /\ Len(qu[q].data) = 1
    /\ qu[q].view = "CARD"

\* C13: for a backend text made of one SELECT statement inside a Markdown
\* code fence (opening fence with a language tag, closing fence, white space
\* around), generateSql returns exactly the bare statement and the safety
\* gate accepts it.
C13_FencedSelectAccepted ==
  \A q \in Queries : \A f \in FencedSelects :
    (InHist(qu[q], "SqlGenerated") /\ qu[q].text = f.text)
      => /\ qu[q].sql = f.stmt
         /\ InHist(qu[q], "SqlValidated")
         /\ qu[q].execCalls = 1

\* C15: in every reachable state of the machines table, after any sequence
\* of uploads, no row has a null or empty machine field; a falsy machine cell
\* is stored as Unknown Machine.
C15_MachineNeverNullOrEmpty ==
  /\ \A i \in 1..Len(db.rows) :
        /\ db.rows[i].t[3] \notin {Null, Undefined}
        /\ ~(db.rows[i].t[3].t = "string" /\ db.rows[i].t[3].s = <<>>)
  /\ \A u \in Uploads : \A i \in 1..Len(db.rows) :
        (db.rows[i].gen = up[u].gen /\ up[u].file = "blankThenRow")
          => db.rows[i].t[3]
               = Str(<<"U","n","k","n","o","w","n"," ","M","a","c","h","i","n","e">>)

\* the second upload stored the row whose machine cell is the empty text
C15_Witness ==
  \E u \in Uploads :
    /\ up[u].file = "blankThenRow"
    /\ up[u].gen = 2
    /\ up[u].resp = "ok"
    /\ Len(db.rows) = 1
    /\ db.rows[1].gen = 2
    /\ db.rows[1].t[3].s = <<"U","n","k","n","o","w","n"," ","M","a","c","h","i","n","e">>

\* a cell that is empty or holds only white space
CellEmpty(c) ==
  \/ c \in {Null, Undefined}
  \/ c.t = "string" /\ \A k \in 1..Len(c.s) : c.s[k] \in WhiteSpace

\* positions of the data rows with at least one non-empty cell
KeptPositions(ws) ==
  {i \in 2..Len(ws) : \E c \in Columns : ~CellEmpty(ws[i][c])}

\* the k-th of these positions, in worksheet order
KeptPosition(ws, k) ==
  CHOOSE i \in KeptPositions(ws) :
    Cardinality({j \in KeptPositions(ws) : j <= i}) = k

\* C14: the extractor emits nothing for a data row whose 11 cells are all
\* empty or white space, and exactly one tuple for every other data row, in
\* worksheet order: as many tuples as data rows with a non-empty cell.
C14_OneTuplePerNonEmptyRow ==
  (calc.fn = "rowsToInsert" /\ calc.done)
    => /\ Len(calc.outRows) = Cardinality(KeptPositions(calc.ws))
       /\ \A k \in 1..Len(calc.outRows) :
            k <= Cardinality(KeptPositions(calc.ws))
              => calc.outRows[k] = rowData(calc.ws[KeptPosition(calc.ws, k)])

\* days of month m of year y
DaysInMonth(y, m) ==
  IF m = 2
  THEN IF (y % 4 = 0 /\ y % 100 # 0) \/ y % 400 = 0 THEN 29 ELSE 28
  ELSE IF m \in {4, 6, 9, 11} THEN 30 ELSE 31

\* the text is YYYY-MM-DD and names a day of the calendar
ValidDateText(s) ==
  /\ Len(s) = 10
  /\ s[5] = "-" /\ s[8] = "-"
  /\ \A i \in {1, 2, 3, 4, 6, 7, 9, 10} : IsDigit(s[i])
  /\ LET y == DigitVal(s[1]) * 1000 + DigitVal(s[2]) * 100
               + DigitVal(s[3]) * 10 + DigitVal(s[4])
         m == DigitVal(s[6]) * 10 + DigitVal(s[7])
         d == DigitVal(s[9]) * 10 + DigitVal(s[10])
     IN m \in 1..12 /\ d >= 1 /\ d <= DaysInMonth(y, m)

\* C16: for a raw cell value of any type, excelDateToJSDate returns null or a
\* text of the form YYYY-MM-DD naming a valid calendar date.
C16_DateIsNullOrIsoDate ==
  (calc.fn = "excelDateToJSDate" /\ calc.done)
    => \/ calc.outCell = Null
       \/ calc.outCell.t = "string" /\ ValidDateText(calc.outCell.s)

\* the number written by the digits of s
RECURSIVE DigitsVal(_)
DigitsVal(s) ==
  IF s = <<>> THEN 0
  ELSE DigitsVal(SubSeq(s, 1, Len(s) - 1)) * 10 + DigitVal(s[Len(s)])

\* the text names the day n days after 1970-01-01, as YYYY-MM-DD or with a
\* sign and a six-digit year
TextIsDay(s, n) ==
  LET t == IF s # <<>> /\ Head(s) = "+" THEN Tail(s) ELSE s
      yl == Len(t) - 6
  IN /\ yl \in {4, 6}
     /\ (yl = 6 <=> (s # <<>> /\ Head(s) = "+"))
     /\ t[yl + 1] = "-" /\ t[yl + 4] = "-"
     /\ \A i \in (1..Len(t)) \ {yl + 1, yl + 4} : IsDigit(t[i])
     /\ DaysFromCivil(DigitsVal(SubSeq(t, 1, yl)),
                       DigitsVal(SubSeq(t, yl + 2, yl + 3)),
                       DigitsVal(SubSeq(t, yl + 5, yl + 6))) = n

\* C17 as stated: for every numeric v at or above the threshold,
\* excelDateToJSDate returns the date (v - 25569) days after 1970-01-01; for
\* every numeric v below it, null; the threshold (35000) is a day of 1995.
C17_SerialConversion ==
  (calc.fn = "excelDateToJSDate" /\ calc.done /\ calc.cell.t = "number")
    => /\ calc.cell.n >= 35000
            => /\ calc.outCell.t = "string"
               /\ TextIsDay(calc.outCell.s, calc.cell.n - 25569)
       /\ calc.cell.n < 35000 => calc.outCell = Null
       /\ calc.cell.n = 35000
            => calc.outCell = Str(<<"1","9","9","5","-","1","0","-","2","8">>)

\* C17, amended: the same for v at or above the threshold up to the largest
\* time value of a Date (v - 25569 at most 100000000 days); beyond it, null.
C17_SerialConversionInRange ==
  (calc.fn = "excelDateToJSDate" /\ calc.done /\ calc.cell.t = "number")
    => /\ (calc.cell.n >= 35000 /\ calc.cell.n - 25569 <= 100000000)
            => /\ calc.outCell.t = "string"
               /\ TextIsDay(calc.outCell.s, calc.cell.n - 25569)
       /\ (calc.cell.n < 35000 \/ calc.cell.n - 25569 > 100000000)
            => calc.outCell = Null
       /\ calc.cell.n = 35000
            => calc.outCell = Str(<<"1","9","9","5","-","1","0","-","2","8">>)

\* the serial 45000 was converted to 2023-03-15
C17_Witness ==
  /\ calc.fn = "excelDateToJSDate" /\ calc.done
  /\ calc.cell = Num(45000)
  /\ calc.outCell = Str(<<"2","0","2","3","-","0","3","-","1","5">>)

\* the text holds the word confirmar, in any letter case
HoldsConfirmar(s) ==
  \E i \in 1..Len(s) - 8 :
    \A k \in 1..9 :
      s[i + k - 1] \in {<<"c","o","n","f","i","r","m","a","r">>[k],
                         <<"C","O","N","F","I","R","M","A","R">>[k]}

\* C18: for a date cell whose text holds confirmar, in any letter case and
\* with any text or white space around it, excelDateToJSDate returns null; a
\* row with machine CT2 and ETA port Por confirmar is extracted with machine
\* CT2 and a null eta_port.
C18_ConfirmarIsNull ==
  /\ (calc.fn = "excelDateToJSDate" /\ calc.done
        /\ calc.cell.t = "string" /\ HoldsConfirmar(calc.cell.s))
       => calc.outCell = Null
  /\ (calc.fn = "rowsToInsert" /\ calc.done)
       => \A i \in 2..Len(calc.ws) :
            (calc.ws[i][3] = Str(<<"C","T","2">>)
              /\ calc.ws[i][6] = Str(<<"P","o","r"," ","c","o","n","f","i","r","m","a","r">>))
              => \E k \in 1..Len(calc.outRows) :
                   /\ calc.outRows[k][3] = Str(<<"C","T","2">>)
                   /\ calc.outRows[k][6] = Null
                   /\ calc.outRows[k][2] = calc.ws[i][2]

\* CONFIRMAR followed by a date was normalized to null
C18_Witness ==
  /\ calc.fn = "excelDateToJSDate" /\ calc.done
  /\ calc.cell = Str(<<"C","O","N","F","I","R","M","A","R"," ","2","0","2","4","-","0","1","-","1","5">>)
  /\ calc.outCell = Null

\* C19: for a part-number value whose string form ends in .0, sanitizePn
\* returns that string without its last two characters (one suffix only);
\* every other non-null value is returned as its string form, unchanged;
\* null and undefined give null.
C19_PnSuffixStrippedOnce ==
  (calc.fn = "sanitizePn" /\ calc.done)
    => IF calc.cell \in {Null, Undefined}
       THEN calc.outCell = Null
       ELSE LET str == ToStr(calc.cell)
                n == Len(str)
            IN /\ calc.outCell.t = "string"
               /\ IF n >= 2 /\ str[n - 1] = "." /\ str[n] = "0"
                  THEN calc.outCell.s \o <<".", "0">> = str
                  ELSE calc.outCell.s = str

\* 12.0.0 became 12.0
C19_Witness ==
  /\ calc.fn = "sanitizePn" /\ calc.done
  /\ calc.cell = Str(<<"1","2",".","0",".","0">>)
  /\ calc.outCell = Str(<<"1","2",".","0">>)

\* C20: getTranslation(lang, explanationError) returns the sentence of lang
\* for es, en, pt and sv, and the English sentence for every other value
\* (unknown code, regional variant, empty, undefined); never an empty text.
C20_TranslationDefaultsToEnglish ==
  (calc.fn = "getTranslation" /\ calc.done)
    => /\ calc.outText = Fallback(calc.lang)
       /\ calc.outText # ""
       /\ (calc.lang \notin {"es", "pt", "sv"}
             => calc.outText = "I found the data, but couldn't generate an explanation.")

\* the regional variant es-MX was answered in English
C20_Witness ==
  /\ calc.fn = "getTranslation" /\ calc.done
  /\ calc.lang = "es-MX"
  /\ calc.outText = "I found the data, but couldn't generate an explanation."

(***************************************************************************)
(* The statements of one upload.                                           *)
(***************************************************************************)
\* the step runs an INSERT of upload u
InsertRuns(u) ==
  /\ up[u].chain = "stmt"
  /\ up[u].nxt <= Len(up[u].batch)
  /\ up'[u].nxt = up[u].nxt + 1

\* the step runs the COMMIT of upload u
CommitRuns(u) == up[u].chain = "commit" /\ up'[u].chain = "end"

\* the step runs the CREATE of upload u
CreateRuns(u) == up[u].chain = "create" /\ up'[u].chain # "create"

\* C21: the statements of one upload execute in the order DROP, CREATE,
\* BEGIN, one INSERT per tuple in extraction order, COMMIT: CREATE runs on
\* the table DROP left, no INSERT runs while BEGIN has yet to run, the k-th
\* INSERT adds the k-th tuple, and COMMIT runs when every INSERT and BEGIN
\* have run.
C21_StatementsRunInOrder ==
  [][\A u \in Uploads :
       /\ CreateRuns(u) => "DROP" \in up[u].issued
       /\ InsertRuns(u)
            => /\ ~up[u].begin
               /\ (db' # db
                     => db'.rows[Len(db'.rows)].t = up[u].batch[up[u].nxt])
       /\ CommitRuns(u)
            => /\ up[u].nxt > Len(up[u].batch)
               /\ ~up[u].begin]_vars

\* the step sends the 500 response of upload u
ErrorResponseSent(u) ==
  /\ up'[u].responses = up[u].responses + 1
  /\ up'[u].resp = "500"

\* C22: when an INSERT of an upload has failed, the ROLLBACK has run by the
\* time the error response is sent, and the table then shows no row of the
\* failed batch.
C22_RollbackBeforeErrorResponse ==
  [][\A u \in Uploads :
       (ErrorResponseSent(u) /\ up'[u].insFailed)
         => /\ up'[u].rollbacks = 0
            /\ RowsOf(db', up'[u].gen) = {}]_vars

\* C23: in both endpoints, for every kind of error (no file, unreadable or
\* short workbook, failed statement, failed generation, unsafe statement,
\* failed query, failed explanation), the log held an entry for the error
\* when the response of the request was sent.
C23_ErrorLoggedBeforeResponse ==
  /\ \A u \in Uploads :
       up[u].resp \in {"400", "500"} => up[u].respLogged
  /\ \A q \in Queries :
       (qu[q].resp = "500" \/ (qu[q].resp = "ok" /\ qu[q].explainFailed))
         => qu[q].respLogged

AnsweredAsAlone(r, d) ==
  LET alone == RunSql(GeneratedSql[r.text], d)
  IN /\ ~alone.err
     /\ r.respSql = GeneratedSql[r.text]
     /\ r.data = alone.rows
     /\ r.view = (IF Len(alone.rows) = 1 THEN "CARD"
                  ELSE IF Len(alone.rows) > 1 THEN "TABLE" ELSE "undefined")
     /\ r.directAnswer =
          (IF alone.rows = <<>> \/ Len(alone.rows) >= ExplainMaxRows THEN "null"
           ELSE IF r.explainFailed THEN Fallback(r.lang)
           ELSE "generated")

\* C25: with no upload in flight, whatever the interleaving of the steps of
\* two query requests, every answered request has the rows, the statement,
\* the explanation and the view it would have if it were the only request,
\* and no step changes the table.
C25_QueriesDoNotInterfere ==
  /\ [](\A q \in Queries :
          qu[q].resp = "ok" => AnsweredAsAlone(qu[q], db))
  /\ [][db' = db]_vars

\* two requests overlapped and were answered with different rows: one asked
\* for every row of a table of three, the other for the first row
C25_Witness ==
  /\ qu["q1"].resp = "ok" /\ qu["q2"].pc = "explaining"
  /\ Len(qu["q1"].data) = 3 /\ Len(qu["q2"].rows) = 1
  /\ "Executed" \in {qu["q1"].hist[i] : i \in 1..Len(qu["q1"].hist)}

\* C26: within one query request the backend the selector names (gemini
\* when the selector is absent, or zai) is the one called for the SQL and
\* for the explanation, never a mix; a request with no question, or with a
\* selector other than those two values, is answered 400 and calls neither
\* a backend nor the database.
C26_OneBackendPerRequest ==
  \A q \in Queries :
    LET r == qu[q]
        chosen == IF r.model = "absent" THEN "gemini" ELSE r.model
        valid == r.question /\ r.model \in {"absent", "gemini", "zai"}
    IN /\ r.genCalls > 0 => (valid /\ r.genBackend = chosen)
       /\ r.explainCalls > 0 => (valid /\ r.explainBackend = chosen)
       /\ (r.pc # "idle" /\ ~valid)
            => /\ r.resp = "400"
               /\ r.genCalls = 0 /\ r.execCalls = 0 /\ r.explainCalls = 0
       /\ r.resp = "400" => ~valid

\* a request that chose zai had its SQL and its explanation from zai
C26_Witness ==
  \E q \in Queries :
    /\ qu[q].model = "zai" /\ qu[q].resp = "ok"
    /\ qu[q].genBackend = "zai" /\ qu[q].explainBackend = "zai"
    /\ qu[q].directAnswer = "generated"

\* C27: every upload request gets exactly one response on every path, the
\* path where several INSERTs fail and COMMIT fails too (the promise is
\* rejected more than once) included: never two responses, and one response
\* once the handler is through, once the promise is settled and once the
\* last statement of the request has run.
C27_OneUploadResponse ==
  \A u \in Uploads :
    /\ up[u].responses <= 1
    /\ up[u].pc = "done" => up[u].responses = 1
    /\ up[u].settles >= 1 => up[u].responses = 1
    /\ up[u].chain = "end" => (up[u].pc = "done" /\ up[u].responses = 1)

\* two INSERTs and the COMMIT of one upload failed: the promise was rejected
\* three times and the request has its one response, the error
C27_Witness ==
  \E u \in Uploads :
    /\ up[u].insFailed /\ up[u].commitFailed
    /\ up[u].settles >= 3
    /\ up[u].responses = 1 /\ up[u].resp = "500"

\* a worksheet of at least two rows whose data rows are all blank
AllBlank(ws) == Len(ws) >= 2 /\ KeptPositions(ws) = {}

\* C28: an upload whose worksheet has at least 2 rows, all data rows blank,
\* is not rejected: the replace starts, no INSERT is issued and no row of
\* the upload is ever in the table; it fails only if a statement fails, and
\* when COMMIT succeeds it responds success with rows = 0, the table then
\* being empty, every previously stored row gone.
C28_AllBlankUploadEmptiesTable ==
  \A u \in Uploads :
    (AllBlank(WorksheetOf(up[u].file)) /\ up[u].pc \notin {"idle", "reading"})
      => /\ up[u].promise # "none"
         /\ "DROP" \in up[u].issued
         /\ "INSERT" \notin up[u].issued
         /\ up[u].inserted = 0
         /\ RowsOf(db, up[u].gen) = {}
         /\ up[u].promise = "resolved"
              => /\ up[u].resp = "ok"
                 /\ up[u].respRows = 0
                 /\ "COMMIT" \in up[u].issued
         /\ (up[u].resp = "ok" /\ up[u].gen = received)
              => (db.exists /\ db.rows = <<>>)

\* the upload of a header and one row of white space answered success with
\* rows = 0: the row the table held before is gone and the table is empty
C28_Witness ==
  \E u \in Uploads :
    /\ up[u].file = "whitespaceOnly"
    /\ up[u].resp = "ok" /\ up[u].respRows = 0
    /\ up[u].prior.rows # <<>>
    /\ db.exists /\ db.rows = <<>>

(***************************************************************************)
(* The chat widget, src/components/ChatArea.tsx.  A request is outstanding *)
(* from the fetch of handleSendMessage until its finally block has run.    *)
(***************************************************************************)
\* requests the widget makes in a run of the model
MaxRequests == 3

\* what the input box can hold: nothing, white space, a question
InputTexts == {"", " ", "q"}

\* inputValue.trim() is empty
InputBlank(v) == v \in {"", " "}

\* the requests whose fetch has not settled
Outstanding == {i \in 1..Len(chat.requests) : chat.requests[i] = "outstanding"}

\* onChange of the input, ChatArea.tsx:187
TypeInput ==
  /\ \E v \in InputTexts :
       /\ v # chat.inputValue
       /\ chat' = [chat EXCEPT !.inputValue = v]
  /\ UNCHANGED <<db, tx, dbQueue, up, qu, received, calc, pager>>

\* onChange of the model selector, ChatArea.tsx:129-131
SelectModel ==
  /\ \E m \in {"gemini", "zai"} :
       /\ m # chat.aiModel
       /\ chat' = [chat EXCEPT !.aiModel = m]
  /\ UNCHANGED <<db, tx, dbQueue, up, qu, received, calc, pager>>

\* handleSendMessage up to the fetch, ChatArea.tsx:41-66
handleSendMessage ==
  /\ ~InputBlank(chat.inputValue)
  /\ Len(chat.requests) < MaxRequests
  /\ chat' = [chat EXCEPT !.messages = Append(@, "user"),
                          !.inputValue = "",
                          !.isThinking = TRUE,
                          !.isLoading = TRUE,
                          !.requests = Append(@, "outstanding")]
  /\ UNCHANGED <<db, tx, dbQueue, up, qu, received, calc, pager>>

\* a click on the send button, which is disabled while the input is blank
\* or isThinking, ChatArea.tsx:192-194
ClickSend ==
  /\ ~(InputBlank(chat.inputValue) \/ chat.isThinking)
  /\ handleSendMessage

\* a key is pressed in the input: handleKeyDown sends on Enter without
\* Shift, ChatArea.tsx:115-120 and 188
handleKeyDown ==
  \E key \in {"Enter", "a"}, shiftKey \in BOOLEAN :
    /\ key = "Enter" /\ ~shiftKey
    /\ handleSendMessage

\* the fetch of request i settles: the answer or the error message is
\* appended, then finally runs, ChatArea.tsx:68-112
FetchSettles(i) ==
  /\ i \in Outstanding
  /\ \E ok \in BOOLEAN :
       chat' = [chat EXCEPT
                  !.messages = Append(@, IF ok THEN "assistant" ELSE "error"),
                  !.isThinking = FALSE,
                  !.isLoading = FALSE,
                  !.requests[i] = IF ok THEN "ok" ELSE "failed"]
  /\ UNCHANGED <<db, tx, dbQueue, up, qu, received, calc, pager>>

\* handleReset, ChatArea.tsx:36-39
handleReset ==
  /\ chat.messages # <<"init">>
  /\ chat' = [chat EXCEPT !.messages = <<"init">>]
  /\ UNCHANGED <<db, tx, dbQueue, up, qu, received, calc, pager>>

NextChat ==
  \/ TypeInput
  \/ SelectModel
  \/ ClickSend
  \/ handleKeyDown
  \/ \E i \in 1..MaxRequests : FetchSettles(i)
  \/ handleReset

\* the chat widget and its user
SpecChat == Init /\ [][NextChat]_vars

(***************************************************************************)
(* The paginated data view, DataArea (src/unnamed/part_000).               *)
(***************************************************************************)
\* part_000:16
ITEMS_PER_PAGE == 10

\* rows of the largest result set
MaxResultRows == 25

\* columns a header click can sort by
SortColumns == {"machine", "status"}

\* Math.ceil(sortedMachines.length / ITEMS_PER_PAGE), part_000:84
totalPages == (pager.machines + ITEMS_PER_PAGE - 1) \div ITEMS_PER_PAGE

\* the rows of the displayed page: sortedMachines.slice(startIndex,
\* startIndex + ITEMS_PER_PAGE), part_000:79-82
paginatedMachines ==
  LET startIndex == pager.currentPage * ITEMS_PER_PAGE
      last == IF startIndex + ITEMS_PER_PAGE < pager.machines
              THEN startIndex + ITEMS_PER_PAGE ELSE pager.machines
  IN IF last > startIndex THEN last - startIndex ELSE 0

\* the toolbar and the table are rendered, part_000:94-101
Rendered == pager.machines > 0

\* a new result set of n rows arrives with the view the server chose; the
\* effect sets the view mode, part_000:39-47 and App.tsx:17-21
NewResults ==
  /\ \E n \in 0..MaxResultRows, propViewMode \in {"TABLE", "CARD", "undefined"} :
       pager' = [pager EXCEPT
                   !.machines = n,
                   !.viewMode = IF propViewMode # "undefined" THEN propViewMode
                                ELSE IF n = 1 THEN "CARD" ELSE "TABLE"]
  /\ UNCHANGED <<db, tx, dbQueue, up, qu, received, calc, chat>>

\* the previous-page button, part_000:147-153
PreviousPage ==
  /\ Rendered /\ totalPages > 1
  /\ pager.currentPage # 0
  /\ pager' = [pager EXCEPT !.currentPage = IF @ - 1 > 0 THEN @ - 1 ELSE 0]
  /\ UNCHANGED <<db, tx, dbQueue, up, qu, received, calc, chat>>

\* the next-page button, part_000:157-163
NextPage ==
  /\ Rendered /\ totalPages > 1
  /\ pager.currentPage # totalPages - 1
  /\ pager' = [pager EXCEPT
                 !.currentPage = IF @ + 1 < totalPages - 1 THEN @ + 1
                                 ELSE totalPages - 1]
  /\ UNCHANGED <<db, tx, dbQueue, up, qu, received, calc, chat>>

\* a click on a column header, part_000:49-57
handleSort ==
  /\ Rendered /\ pager.viewMode = "TABLE"
  /\ \E column \in SortColumns :
       pager' = IF pager.sortColumn = column
                THEN [pager EXCEPT
                        !.sortDirection = IF @ = "asc" THEN "desc" ELSE "asc",
                        !.currentPage = 0]
                ELSE [pager EXCEPT !.sortColumn = column,
                                   !.sortDirection = "asc",
                                   !.currentPage = 0]
  /\ UNCHANGED <<db, tx, dbQueue, up, qu, received, calc, chat>>

NextPager == NewResults \/ PreviousPage \/ NextPage \/ handleSort

\* the data view, its user and the result sets that arrive
SpecPager == Init /\ [][NextPager]_vars

\* C29: the chat widget keeps at most one query in flight, and isThinking
\* and isLoading are true exactly while a request is outstanding.
C29_OneQueryInFlight ==
  /\ Cardinality(Outstanding) <= 1
  /\ chat.isThinking <=> Outstanding # {}
  /\ chat.isLoading <=> Outstanding # {}

\* C30: whenever the result set is non-empty, 0 <= currentPage < totalPages,
\* so the displayed page has at least one row.
C30_PageWithinRange ==
  pager.machines > 0
    => /\ 0 <= pager.currentPage
       /\ pager.currentPage < totalPages
       /\ paginatedMachines > 0

=============================================================================
